---- MODULE Spec2Model ----
(***************************************************************************)
(* A model of git_dumper.py: GitDumper.dump() run against a remote that    *)
(* serves a fixed snapshot of a .git directory over per-path GET requests. *)
(*                                                                         *)
(* Bytes and text are sequences of byte values (0..255).  Python str and   *)
(* bytes coincide on ASCII; reading a file in text mode fails on any byte  *)
(* >= 128 (the inputs hold no valid multi-byte UTF-8 sequence).  Paths are *)
(* byte sequences too, so that the object path built from a hash and the   *)
(* ref path read out of HEAD are computed, not assumed.                    *)
(***************************************************************************)
EXTENDS Integers, Sequences, FiniteSets

\* ------------------------------------------------------------------ text

Lower == <<"a","b","c","d","e","f","g","h","i","j","k","l","m",
           "n","o","p","q","r","s","t","u","v","w","x","y","z">>

Upper == <<"A","B","C","D","E","F","G","H","I","J","K","L","M",
           "N","O","P","Q","R","S","T","U","V","W","X","Y","Z">>

Digit == <<"0","1","2","3","4","5","6","7","8","9">>

\* The byte value of one ASCII character ("LF", "SP": line feed, space).
Ord(c) ==
    IF \E i \in 1..26 : Lower[i] = c THEN 96 + (CHOOSE i \in 1..26 : Lower[i] = c)
    ELSE IF \E i \in 1..26 : Upper[i] = c THEN 64 + (CHOOSE i \in 1..26 : Upper[i] = c)
    ELSE IF \E i \in 1..10 : Digit[i] = c THEN 47 + (CHOOSE i \in 1..10 : Digit[i] = c)
    ELSE CASE c = "LF" -> 10
           [] c = "SP" -> 32
           [] c = "-"  -> 45
           [] c = "."  -> 46
           [] c = "/"  -> 47
           [] c = ":"  -> 58
           [] c = "_"  -> 95

\* The bytes of a text given character by character.
Txt(s) == [i \in 1..Len(s) |-> Ord(s[i])]

\* n copies of byte b.
Rep(b, n) == [i \in 1..n |-> b]

\* Python's s[a:] and s[:b] on 0-based offsets (clamped slices).
From(s, a) == SubSeq(s, a + 1, Len(s))

Upto(s, b) == SubSeq(s, 1, IF b < Len(s) THEN b ELSE Len(s))

\* s.startswith(p)
StartsWith(s, p) == Len(s) >= Len(p) /\ SubSeq(s, 1, Len(p)) = p

\* The 1-based start positions of p in s.
Occurrences(s, p) ==
    {i \in 1..Len(s) : i + Len(p) - 1 <= Len(s) /\ SubSeq(s, i, i + Len(p) - 1) = p}

\* p in s
Contains(s, p) == Occurrences(s, p) # {}

MinOf(S) == CHOOSE x \in S : \A y \in S : x <= y

MaxOf(S) == CHOOSE x \in S : \A y \in S : x >= y

\* The characters str.strip() removes (ASCII whitespace and separators).
Whitespace == {9, 10, 11, 12, 13, 28, 29, 30, 31, 32}

\* s.strip()
Strip(s) ==
    LET keep == {i \in 1..Len(s) : s[i] \notin Whitespace}
    IN  IF keep = {} THEN <<>> ELSE SubSeq(s, MinOf(keep), MaxOf(keep))

\* s.split(sep): the pieces between the leftmost non-overlapping occurrences.
RECURSIVE Split(_, _)
Split(s, sep) ==
    LET occ == Occurrences(s, sep)
    IN  IF occ = {} THEN <<s>>
        ELSE LET p == MinOf(occ)
             IN  <<SubSeq(s, 1, p - 1)>> \o Split(From(s, p - 1 + Len(sep)), sep)

\* bytes.hex(): two lowercase hex digits per byte.
HexDigits == Txt(<<"0","1","2","3","4","5","6","7","8","9","a","b","c","d","e","f">>)

Hex(bs) ==
    [i \in 1..(2 * Len(bs)) |->
        LET b == bs[(i + 1) \div 2]
        IN  HexDigits[(IF i % 2 = 1 THEN b \div 16 ELSE b % 16) + 1]]

\* Text-mode read: the locale decoder (UTF-8) rejects these inputs' high bytes.
Decodable(bs) == \A i \in 1..Len(bs) : bs[i] < 128

\* ----------------------------------------------------------------- paths

Slash == Txt(<<"/">>)

\* self.output_dir / '.git' (paths are relative to the output directory).
GitDir == Txt(<<".","g","i","t">>)

RefsDir == GitDir \o Txt(<<"/","r","e","f","s">>)

P_HEAD == Txt(<<"H","E","A","D">>)

P_config == Txt(<<"c","o","n","f","i","g">>)

P_description == Txt(<<"d","e","s","c","r","i","p","t","i","o","n">>)

P_index == Txt(<<"i","n","d","e","x">>)

P_packed_refs == Txt(<<"p","a","c","k","e","d","-","r","e","f","s">>)

P_FETCH_HEAD == Txt(<<"F","E","T","C","H","_","H","E","A","D">>)

P_ORIG_HEAD == Txt(<<"O","R","I","G","_","H","E","A","D">>)

W_refs == Txt(<<"r","e","f","s","/">>)

W_heads == Txt(<<"h","e","a","d","s","/">>)

W_origin == Txt(<<"r","e","m","o","t","e","s","/","o","r","i","g","i","n","/">>)

W_master == Txt(<<"m","a","s","t","e","r">>)

W_main == Txt(<<"m","a","i","n">>)

W_logs == Txt(<<"l","o","g","s","/">>)

W_objects == Txt(<<"o","b","j","e","c","t","s","/">>)

P_master == W_refs \o W_heads \o W_master

P_develop == W_refs \o W_heads \o Txt(<<"d","e","v","e","l","o","p">>)

basic_files ==
    <<P_HEAD, P_config, P_description, P_index, P_packed_refs, P_FETCH_HEAD, P_ORIG_HEAD>>

ref_paths ==
    <<P_master,
      W_refs \o W_heads \o W_main,
      W_refs \o W_origin \o W_master,
      W_refs \o W_origin \o W_main,
      W_refs \o W_origin \o P_HEAD,
      W_refs \o Txt(<<"s","t","a","s","h">>)>>

log_paths ==
    <<W_logs \o P_HEAD,
      W_logs \o W_refs \o W_heads \o W_master,
      W_logs \o W_refs \o W_heads \o W_main,
      W_logs \o W_refs \o W_origin \o W_master,
      W_logs \o W_refs \o W_origin \o W_main>>

\* f'objects/{sha1_hash[:2]}/{sha1_hash[2:]}'
ObjPath(sha1_hash) == W_objects \o Upto(sha1_hash, 2) \o Slash \o From(sha1_hash, 2)

\* f'.git/{path}', the local path save_file is given.
Local(path) == GitDir \o Slash \o path

\* git_dir / ref_path for the relative, dot-free ref paths of the inputs.
JoinGitDir(ref_path) == IF ref_path = <<>> THEN GitDir ELSE GitDir \o Slash \o ref_path

\* The length in bytes of a SHA-1 digest, and of its hex form.
HashLen == 20

ShaHexLen == 40

\* ---------------------------------------------------------------- bounds

\* The longest staging index served, in bytes.
MaxIndexLen == 22

\* How many requests of a run sequence may fail in transport (timeout, reset).
MaxFlakes == 1

\* ---------------------------------------------------------------- remote

\* What download_file returns: the body of a 200 response, or None.
NoContent == [ok |-> FALSE, body |-> <<>>]

Found(b) == [ok |-> TRUE, body |-> b]

\* `if content:` on what download_file returned.
Truthy(r) == r.ok /\ r.body # <<>>

IdA == Rep(Ord("a"), ShaHexLen)

IdB == Rep(Ord("b"), ShaHexLen)

IdC == Rep(Ord("c"), ShaHexLen)

IdD == Rep(Ord("d"), ShaHexLen)

IdZ == Rep(Ord("0"), ShaHexLen)

ObjectIds == {IdA, IdB, IdC, IdD, IdZ}

\* The repository behind the remote: commit A -> tree B -> blob C; D, the
\* commit of branch develop, and Z are leaves.
References(id) == IF id = IdA THEN {IdB} ELSE IF id = IdB THEN {IdC} ELSE {}

\* The stored bytes of an object: a zlib stream (0x78 0x9c ...), but for Z,
\* which the remote serves as a text naming A.
ObjectBody(id) == IF id = IdZ THEN IdA \o Txt(<<"LF">>) ELSE <<120, 156, id[1]>>

LF == Txt(<<"LF">>)

RefPrefix == Txt(<<"r","e","f",":","SP">>)

\* Where a git repository keeps the object `id`: objects/<2 hex>/<38 hex>.
StorePath(id) == W_objects \o SubSeq(id, 1, 2) \o Slash \o SubSeq(id, 3, Len(id))

\* The bodies HEAD is served with (or is absent).
HeadResponses ==
    { NoContent,
      Found(RefPrefix \o P_master \o LF),
      Found(RefPrefix \o P_develop \o LF),
      Found(Txt(<<"r","e","f",":">>) \o P_master \o LF),
      Found(RefPrefix \o StorePath(IdZ) \o LF),
      Found(RefPrefix \o W_refs \o Txt(<<"h","e","a","d","s">>) \o LF),
      Found(IdA \o LF),
      Found(RefPrefix \o P_master \o LF \o <<255>>) }

\* The bodies refs/heads/master is served with (or is absent).
MasterResponses ==
    { NoContent,
      Found(IdA \o LF),
      Found(IdZ \o LF),
      Found(Txt(<<"n","o","t","-","a","-","h","a","s","h">>) \o LF),
      Found(<<255, 254>>) }

\* The staging indexes served: zero-filled ones of every length around the
\* digest length, and one filled with 0xaa (the digest of A) ending in 0, 0.
IndexResponses ==
    { NoContent }
    \cup { Found(Rep(0, n)) : n \in (HashLen - 1)..MaxIndexLen }
    \cup { Found(Rep(170, MaxIndexLen - 2) \o <<0, 0>>) }

\* The objects the remote serves: all, or all but one.
ServedSets == { ObjectIds } \cup { ObjectIds \ {x} : x \in {IdA, IdC, IdZ} }

Remotes ==
    [ head : HeadResponses, master : MasterResponses,
      index : IndexResponses, served : ServedSets ]

\* The response of the remote `rm` to GET <base>/.git/<path>.
Serve(rm, path) ==
    IF path = P_HEAD THEN rm.head
    ELSE IF path = P_master THEN rm.master
    ELSE IF path = P_index THEN rm.index
    ELSE IF path = P_develop THEN Found(IdD \o LF)
    ELSE IF path = P_description THEN Found(<<>>)
    ELSE IF path = P_packed_refs
         THEN Found(IdB \o Txt(<<"SP">>) \o P_master \o LF)
    ELSE IF path = log_paths[1]
         THEN Found(IdZ \o Txt(<<"SP">>) \o IdC \o Txt(<<"SP","x">>) \o LF)
    ELSE IF \E id \in rm.served : path = StorePath(id)
         THEN Found(ObjectBody(CHOOSE id \in rm.served : path = StorePath(id)))
    ELSE NoContent

\* ----------------------------------------------------------------- state

VARIABLES
    remote,     \* the snapshot the remote serves, fixed for the whole behaviour
    disk,       \* the output directory: local path -> bytes
    pc,         \* where dump() is
    idx,        \* the position in the fixed list being downloaded
    hashes,     \* the hashes the current object loop has still to download
    candidates, \* what parse_index_file returned in this run
    mark,       \* how many requests the run had made when it returned
    requested,  \* the paths given to session.get in this run, in order
    written,    \* the local paths save_file wrote in this run
    got,        \* <<path, body>> of every 200 response of this run
    probe,      \* <<what download_file returned to check_git_exposed>>
    failed,     \* the hashes dump_object returned False for in this run
    exitCode,   \* the process's exit status (-1 while running)
    flakes,     \* transport failures so far
    limit,      \* how many transport failures the network may inject at most
    runs,       \* how many times the operator runs the tool into the directory
    run,        \* the number of the current run
    prev        \* <<the disk, the objects written and the exit status of the last run>>

vars == <<remote, disk, pc, idx, hashes, candidates, mark, requested, written, got,
          probe, failed, exitCode, flakes, limit, runs, run, prev>>

NoFiles == [q \in {} |-> <<>>]

\* The state a run starts in, but for the network and the number of runs.
Start ==
    /\ remote \in Remotes
    /\ disk = NoFiles
    /\ pc = "check"
    /\ idx = 1
    /\ hashes = {}
    /\ candidates = {}
    /\ mark = 0
    /\ requested = <<>>
    /\ written = {}
    /\ got = {}
    /\ probe = <<>>
    /\ failed = {}
    /\ exitCode = -1
    /\ flakes = 0
    /\ run = 1
    /\ prev = <<>>

\* One run into an empty directory over a network that may fail.
Init == Start /\ limit = MaxFlakes /\ runs = 1

\* Two runs into the same directory over a network that does not fail.
InitTwice == Start /\ limit = 0 /\ runs = 2

\* ------------------------------------------------------------- file system

\* save_file writing the decoded text (undecodable bytes dropped), not the bytes.
save_file_text(d, file_path, content) ==
    [q \in (DOMAIN d) \cup {file_path} |->
        IF q = file_path THEN SelectSeq(content, LAMBDA b : b < 128) ELSE d[q]]

\* save_file: the parents are created, the file is (over)written.
save_file(d, file_path, content) ==
    [q \in (DOMAIN d) \cup {file_path} |-> IF q = file_path THEN content ELSE d[q]]

IsFile(d, p) == p \in DOMAIN d

IsDir(d, p) == \E f \in DOMAIN d : StartsWith(f, p \o Slash)

\* Path.exists()
Exists(d, p) == IsFile(d, p) \/ IsDir(d, p)

\* open(p, 'r').read() returns: p is a regular file of decodable bytes.
\* Otherwise it raises (IsADirectoryError, UnicodeDecodeError).
Readable(d, p) == IsFile(d, p) /\ Decodable(d[p])

\* ------------------------------------------------------------ download_file

\* What download_file(path) may return: the body if the remote answers 200,
\* None if it answers otherwise or the transport raises (caught, line 32).
download_file(path) ==
    {Serve(remote, path)}
    \cup (IF flakes < limit /\ Serve(remote, path).ok THEN {NoContent} ELSE {})

\* One call of download_file(path) returning r.
Download(path, r) ==
    /\ r \in download_file(path)
    /\ requested' = Append(requested, path)
    /\ got' = IF r.ok THEN got \cup {<<path, r.body>>} ELSE got
    /\ flakes' = IF r = Serve(remote, path) THEN flakes ELSE flakes + 1

\* content = self.download_file(path); if content: self.save_file(...)
DownloadAndSave(path, r) ==
    /\ Download(path, r)
    /\ IF Truthy(r)
       THEN /\ disk' = save_file(disk, Local(path), r.body)
            /\ written' = written \cup {Local(path)}
       ELSE UNCHANGED <<disk, written>>

\* ------------------------------------------------------------------ dump()

\* check_git_exposed accepting any non-empty body.
ExposedAnyBody(r) == Truthy(r)

\* check_git_exposed: `content and b'ref:' in content`
Exposed(r) == Truthy(r) /\ Contains(r.body, Txt(<<"r","e","f",":">>))

\* A loop that a failed download ends.
LoopBreak(list, i, r) == IF r.ok THEN i + 1 ELSE Len(list) + 1

\* The position after list[i] in `for x in list:`, whatever the download gave.
LoopNext(list, i, r) == i + 1

\* An object loop that a failed download ends.
RemainingBreak(hs, h, r) == IF Truthy(r) THEN hs \ {h} ELSE {}

\* The hashes left to a `for sha1_hash in hashes:` loop after the one for h.
Remaining(hs, h, r) == hs \ {h}

\* if not self.check_git_exposed(): return False      (main: sys.exit(1))
CheckGitExposed ==
    /\ pc = "check"
    /\ \E r \in download_file(P_HEAD) :
         /\ Download(P_HEAD, r)
         /\ probe' = <<r>>
         /\ IF Exposed(r)
            THEN pc' = "basic" /\ UNCHANGED exitCode
            ELSE pc' = "exited" /\ exitCode' = 1
    /\ idx' = 1
    /\ UNCHANGED <<remote, disk, hashes, candidates, mark, written, failed, limit,
                   runs, run, prev>>

\* One iteration of the loop over `list` at pc = here; `there` follows the loop.
DumpListed(list, here, there) ==
    /\ pc = here
    /\ \E r \in download_file(list[idx]) :
         /\ DownloadAndSave(list[idx], r)
         /\ LET n == LoopNext(list, idx, r)
            IN  IF n > Len(list)
                THEN pc' = there /\ idx' = 1
                ELSE pc' = here /\ idx' = n
    /\ UNCHANGED <<remote, hashes, candidates, mark, probe, failed, exitCode, limit,
                   runs, run, prev>>

DumpBasicFiles == DumpListed(basic_files, "basic", "refs")

DumpRefs == DumpListed(ref_paths, "refs", "logs")

DumpLogs == DumpListed(log_paths, "logs", "objrefs")

\* The HEAD part of dump_objects_from_refs: the hash in the ref HEAD names.
head_hashes(d) ==
    LET head_file == Local(P_HEAD)
    IN  IF ~Exists(d, head_file) THEN [raised |-> FALSE, hashes |-> {}]
        ELSE IF ~Readable(d, head_file) THEN [raised |-> TRUE, hashes |-> {}]
        ELSE LET content == Strip(d[head_file])
             IN  IF ~StartsWith(content, Txt(<<"r","e","f",":">>))
                 THEN [raised |-> FALSE, hashes |-> {}]
                 ELSE LET parts == Split(content, RefPrefix)
                      IN  IF Len(parts) < 2
                          THEN [raised |-> TRUE, hashes |-> {}]   \* IndexError
                          ELSE LET ref_file == JoinGitDir(parts[2])
                               IN  IF ~Exists(d, ref_file)
                                   THEN [raised |-> FALSE, hashes |-> {}]
                                   ELSE IF ~Readable(d, ref_file)
                                   THEN [raised |-> TRUE, hashes |-> {}]
                                   ELSE [raised |-> FALSE,
                                         hashes |-> {Strip(d[ref_file])}]

\* dump_objects_from_refs without its scan of .git/refs.
refs_hashes_none(d) == [raised |-> FALSE, hashes |-> {}]

\* The refs part: every file under .git/refs whose stripped text has 40 characters.
refs_hashes(d) ==
    LET files == {f \in DOMAIN d : StartsWith(f, RefsDir \o Slash)}
    IN  IF \E f \in files : ~Decodable(d[f])
        THEN [raised |-> TRUE, hashes |-> {}]
        ELSE [raised |-> FALSE,
              hashes |-> {Strip(d[f]) : f \in {g \in files : Len(Strip(d[g])) = ShaHexLen}}]

\* The set `hashes` dump_objects_from_refs builds, or the exception it raises.
ref_hashes(d) ==
    IF head_hashes(d).raised \/ refs_hashes(d).raised
    THEN [raised |-> TRUE, hashes |-> {}]
    ELSE [raised |-> FALSE, hashes |-> head_hashes(d).hashes \cup refs_hashes(d).hashes]

\* dump_objects_from_refs up to its download loop. An exception leaves dump()
\* and main(): the interpreter exits with status 1.
ReadRefs ==
    /\ pc = "objrefs"
    /\ LET res == ref_hashes(disk)
       IN  IF res.raised
           THEN pc' = "crashed" /\ exitCode' = 1 /\ hashes' = {}
           ELSE /\ hashes' = res.hashes
                /\ pc' = IF res.hashes = {} THEN "index" ELSE "refloop"
                /\ UNCHANGED exitCode
    /\ UNCHANGED <<remote, disk, idx, candidates, mark, requested, written, got, probe,
                   failed, flakes, limit, runs, run, prev>>

\* dump_object(sha1_hash) returning whether it saved the object.
DumpObject(sha1_hash, r) ==
    /\ DownloadAndSave(ObjPath(sha1_hash), r)
    /\ failed' = IF Truthy(r) THEN failed ELSE failed \cup {sha1_hash}

\* One iteration of an object loop at pc = here; sets iterate in any order.
DumpObjects(here, there) ==
    /\ pc = here
    /\ \E sha1_hash \in hashes :
         \E r \in download_file(ObjPath(sha1_hash)) :
            /\ DumpObject(sha1_hash, r)
            /\ hashes' = Remaining(hashes, sha1_hash, r)
            /\ pc' = IF hashes' = {} THEN there ELSE here
    /\ UNCHANGED <<remote, idx, candidates, mark, probe, exitCode, limit, runs, run,
                   prev>>

DumpObjectsFromRefs == DumpObjects("refloop", "index")

\* parse_index_file: the hex of the 20-byte chunks at offsets i < len - 20.
parse_index_file(d) ==
    LET index_path == Local(P_index)
    IN  IF ~Exists(d, index_path) THEN {}
        ELSE LET content == d[index_path]
                 offsets == {i \in 0..Len(content) : i < Len(content) - HashLen}
                 hex_hash(i) == Hex(Upto(From(content, i), HashLen))
             IN  {hex_hash(i) : i \in {j \in offsets : Len(hex_hash(j)) = ShaHexLen}}

\* dump_objects_from_index up to its download loop.
ParseIndex ==
    /\ pc = "index"
    /\ candidates' = parse_index_file(disk)
    /\ mark' = Len(requested)
    /\ hashes' = {h \in candidates' : Len(h) = ShaHexLen}
    /\ pc' = IF hashes' = {} THEN "completed" ELSE "idxloop"
    /\ UNCHANGED <<remote, disk, idx, requested, written, got, probe, failed,
                   exitCode, flakes, limit, runs, run, prev>>

DumpObjectsFromIndex == DumpObjects("idxloop", "completed")

\* print("[+] Dump completed!"); return True          (main: sys.exit(0))
Complete ==
    /\ pc = "completed"
    /\ pc' = "exited"
    /\ exitCode' = 0
    /\ UNCHANGED <<remote, disk, idx, hashes, candidates, mark, requested, written, got,
                   probe, failed, flakes, limit, runs, run, prev>>

\* The ids the end-of-run report lists as not obtained. dump() prints no such
\* list, and both loops drop what dump_object returns (lines 164, 173).
unavailable == {}

Terminated == pc \in {"exited", "crashed"}

\* The tool is started again with the same arguments.
Rerun ==
    /\ Terminated
    /\ run < runs
    /\ run' = run + 1
    /\ prev' = <<[disk |-> disk, written |-> written, exit |-> exitCode]>>
    /\ pc' = "check"
    /\ idx' = 1
    /\ hashes' = {}
    /\ candidates' = {}
    /\ mark' = 0
    /\ requested' = <<>>
    /\ written' = {}
    /\ got' = {}
    /\ probe' = <<>>
    /\ failed' = {}
    /\ exitCode' = -1
    /\ UNCHANGED <<remote, disk, flakes, limit, runs>>

\* The steps of one run.
Next ==
    \/ CheckGitExposed
    \/ DumpBasicFiles
    \/ DumpRefs
    \/ DumpLogs
    \/ ReadRefs
    \/ DumpObjectsFromRefs
    \/ ParseIndex
    \/ DumpObjectsFromIndex
    \/ Complete

Spec == Init /\ [][Next]_vars

NextTwice == Next \/ Rerun

TwiceSpec == InitTwice /\ [][NextTwice]_vars

\* ---------------------------------------------------------------- claims

Range(f) == {f[i] : i \in DOMAIN f}

Marker == Txt(<<"r","e","f",":">>)

\* The probe returned a body that contains the marker.
ProbePassed == probe # <<>> /\ probe[1].ok /\ Contains(probe[1].body, Marker)

\* The probe returned None (non-200, transport error) or a body without the marker.
ProbeFailed == probe # <<>> /\ ~(probe[1].ok /\ Contains(probe[1].body, Marker))

Completed == pc = "exited" /\ exitCode = 0

\* The 7 basic files, the 6 well-known ref paths, the 5 log paths.
FixedPaths == Range(basic_files) \cup Range(ref_paths) \cup Range(log_paths)

IsObjectPath(path) == StartsWith(path, W_objects)

\* How many times the run requested `path`.
Requests(path) == Cardinality({i \in DOMAIN requested : requested[i] = path})

\* C1: a failed probe of HEAD ends the run with exit status 1, HEAD the only
\* path requested and no file written; in every run the probe is the first
\* request, and nothing is written before it has passed.
C1_ExposureGate ==
    /\ ProbeFailed =>
         /\ pc = "exited" /\ exitCode = 1
         /\ requested = <<P_HEAD>>
         /\ written = {} /\ disk = NoFiles
    /\ requested # <<>> => probe # <<>> /\ requested[1] = P_HEAD
    /\ Len(requested) > 1 \/ written # {} => ProbePassed

\* C1: HEAD answered 200 with a body that lacks the marker, and the run ended.
C1_Witness ==
    /\ ProbeFailed /\ probe[1].ok /\ probe[1].body # <<>>
    /\ pc = "exited"

\* C2: no object path is requested twice in a run.
C2_NoDuplicateFetch ==
    \A path \in Range(requested) : IsObjectPath(path) => Requests(path) <= 1

\* C4: every file written in the run holds the bytes a fetch of its path
\* returned, and every object fetched with a non-empty body is stored with
\* exactly those bytes under .git/objects/<2 hex>/<38 hex>.
C4_BytePreservation ==
    /\ \A f \in written :
         f \in DOMAIN disk /\ \E g \in got : f = Local(g[1]) /\ disk[f] = g[2]
    /\ \A id \in ObjectIds :
         \A g \in got :
            g[1] = StorePath(id) /\ g[2] # <<>> =>
               /\ GitDir \o Slash \o StorePath(id) \in DOMAIN disk
               /\ disk[GitDir \o Slash \o StorePath(id)] = g[2]

\* C4: an object whose body holds bytes that are no text was fetched and stored.
C4_Witness ==
    \E id \in ObjectIds :
       /\ <<StorePath(id), ObjectBody(id)>> \in got
       /\ ~Decodable(ObjectBody(id))
       /\ Local(StorePath(id)) \in written

\* C5: once the probe has passed, the run never ends by an exception.
C5_OnlyNotExposedAborts == ProbePassed => pc # "crashed" /\ exitCode # 1

\* C6: once past the three metadata loops, the run has requested every one of
\* the 18 fixed paths, whatever the fetches returned; a download that returns
\* nothing never ends the run, which fails only on the content of a saved file.
C6_MetadataIndependent ==
    /\ Cardinality(FixedPaths) = 18
    /\ ProbePassed /\ pc \notin {"basic", "refs", "logs"} => FixedPaths \subseteq Range(requested)
    /\ ProbePassed /\ pc \in {"basic", "refs", "logs"} => exitCode = -1
    /\ ProbePassed /\ exitCode = 1 => pc = "crashed" /\ ref_hashes(disk).raised

\* C6: a run completed although a transport failure and a not-found occurred.
C6_Witness ==
    /\ Completed /\ flakes > 0
    /\ \E path \in FixedPaths : ~Serve(remote, path).ok
    /\ FixedPaths \subseteq Range(requested)

\* The run saves `path`: the remote answers 200 with a non-empty body.
Saved(rm, path) == Truthy(Serve(rm, path))

\* The hash a failure-free run into an empty directory reads through HEAD:
\* the stripped text of the ref HEAD points to, when that ref is a saved file.
NamedByHead(rm) ==
    LET content == Strip(rm.head.body)
        parts   == Split(content, RefPrefix)
    IN  IF Saved(rm, P_HEAD) /\ StartsWith(content, Marker) /\ Len(parts) >= 2
           /\ parts[2] \in FixedPaths /\ Saved(rm, parts[2])
        THEN {Strip(Serve(rm, parts[2]).body)}
        ELSE {}

\* The 40-character texts of the saved well-known ref files.
NamedByRefs(rm) ==
    {Strip(Serve(rm, path).body) :
        path \in {q \in Range(ref_paths) :
                    Saved(rm, q) /\ Len(Strip(Serve(rm, q).body)) = ShaHexLen}}

\* The hex of every 20-byte window of the served index but the last one.
NamedByIndex(rm) ==
    LET c == rm.index.body
    IN  {Hex(SubSeq(c, i + 1, i + HashLen)) : i \in 0..(Len(c) - HashLen - 1)}

\* The hashes the saved refs and the index name directly.
DirectlyNamed(rm) == NamedByHead(rm) \cup NamedByRefs(rm) \cup NamedByIndex(rm)

\* The object files written in the run.
RecoveredFiles == {f \in written : StartsWith(f, GitDir \o Slash \o W_objects)}

StoreFile(id) == GitDir \o Slash \o StorePath(id)

\* The objects reachable from S through the references of the served objects.
RECURSIVE Reach(_, _)
Reach(S, served) ==
    LET more == S \cup UNION {References(x) : x \in S \cap served}
    IN  IF more = S THEN S ELSE Reach(more, served)

Reachable(rm) == Reach(DirectlyNamed(rm) \cap ObjectIds, rm.served)

Stages ==
    <<"completed", "idxloop", "index", "refloop", "objrefs", "logs", "refs", "basic", "check">>

\* What a run has left to do: the stages ahead, then the items of its loop.
Measure ==
    100 * (IF Terminated THEN 0 ELSE CHOOSE i \in 1..Len(Stages) : Stages[i] = pc)
    + (CASE pc = "basic" -> Len(basic_files) - idx
         [] pc = "refs" -> Len(ref_paths) - idx
         [] pc = "logs" -> Len(log_paths) - idx
         [] pc \in {"refloop", "idxloop"} -> Cardinality(hashes)
         [] OTHER -> 0)

\* A run that has not ended has a step to take.
CanStep ==
    /\ pc \in Range(Stages) \cup {"exited", "crashed"}
    /\ pc \in {"refloop", "idxloop"} => hashes # {}
    /\ pc = "basic" => idx \in 1..Len(basic_files)
    /\ pc = "refs" => idx \in 1..Len(ref_paths)
    /\ pc = "logs" => idx \in 1..Len(log_paths)

\* With every object served and no transport failure, a completed run has
\* recovered exactly the served objects named directly.
DirectRecovered ==
    Completed /\ flakes = 0 /\ remote.served = ObjectIds =>
       RecoveredFiles =
          {StoreFile(h) : h \in {x \in DirectlyNamed(remote) : Saved(remote, StorePath(x))}}

C8_Idempotent ==
    run = 2 /\ Terminated =>
       /\ disk = prev[1].disk
       /\ RecoveredFiles = {f \in prev[1].written : StartsWith(f, GitDir \o Slash \o W_objects)}

IsHex(b) == b \in Range(HexDigits)

\* The ObjectId-shaped tokens of a text: maximal runs of exactly 40 hex digits.
IdsIn(text) ==
    {SubSeq(text, i, i + ShaHexLen - 1) :
        i \in {j \in 1..(Len(text) - ShaHexLen + 1) :
                 /\ \A k \in j..(j + ShaHexLen - 1) : IsHex(text[k])
                 /\ j > 1 => ~IsHex(text[j - 1])
                 /\ j + ShaHexLen <= Len(text) => ~IsHex(text[j + ShaHexLen])}}

\* C9: in a completed run, (i) the ref file HEAD points to was fetched and the
\* id it holds requested, and (ii) every id of a fetched packed-refs and of a
\* fetched reflog was requested.
C9_SeedCoverage ==
    Completed /\ flakes = 0 =>
       /\ LET content == Strip(remote.head.body)
              target  == Strip(From(content, Len(RefPrefix)))
          IN  StartsWith(content, RefPrefix) /\ Saved(remote, target) =>
                 /\ target \in Range(requested)
                 /\ \A id \in IdsIn(Serve(remote, target).body) :
                       StorePath(id) \in Range(requested)
       /\ \A g \in got :
             g[1] \in {P_packed_refs} \cup Range(log_paths) =>
                \A id \in IdsIn(g[2]) : StorePath(id) \in Range(requested)

\* Every 20-byte window of c, the last one included, in hex.
AllWindows(c) == {Hex(SubSeq(c, i + 1, i + HashLen)) : i \in 0..(Len(c) - HashLen)}

\* C10: once parse_index_file has returned, its candidates are the hex of
\* every 20-byte window of the saved index (none without an index), each of 40
\* characters; and dump_objects_from_index requests each exactly once.
C10_IndexWindowScan ==
    pc \in {"idxloop", "completed"} \/ Completed =>
       /\ candidates = IF Local(P_index) \in DOMAIN disk
                       THEN AllWindows(disk[Local(P_index)]) ELSE {}
       /\ \A h \in candidates : Len(h) = ShaHexLen
       /\ pc # "idxloop" =>
            /\ Len(requested) - mark = Cardinality(candidates)
            /\ \A h \in candidates :
                  \E i \in (mark + 1)..Len(requested) : requested[i] = StorePath(h)

====
